---- MODULE Spec2Model ----
(***************************************************************************)
(* The three data-upload pages of the HR report application:               *)
(*   src/app.py                        HR page                             *)
(*   src/pages/1_financialdashboard.py financial page                      *)
(*   src/pages/2_metrcispage.py        construction page                   *)
(* A page is a script that is run from top to bottom; one run is one       *)
(* action.  A run reads the uploader widget, loads the CSV, derives the    *)
(* metrics and emits outputs one after the other; an exception stops the   *)
(* run where it is raised, the outputs emitted before it stay on the page. *)
(*                                                                         *)
(* Values.  A cell is a sequence: <<>> is a missing cell (NaN / NaT),      *)
(* <<n>> a number or a parsed date (day number), <<"s">> a text, and       *)
(* <<n, d>> the float n/d (d = 0: +-inf).  None is <<>> and a bound        *)
(* Python variable holding x is <<x>>.                                     *)
(***************************************************************************)
EXTENDS Integers, Sequences, FiniteSets, TLC

VARIABLES
    file,                 \* the CSV file the user holds
    page,                 \* the page whose script ran last
    uploaded_file,        \* what the uploader widget returned in that run
    df,                   \* the page's table variable after the run
    completed_projects,   \* construction page: the three status subsets
    in_progress_projects,
    confirmed_projects,
    metrics,              \* the outputs the run emitted: name -> value
    messages,             \* the notices the run emitted, in order
    status,               \* how the run ended: idle, ok, error (caught), fault
    exc                   \* the exception that ended it, or "none"

vars == <<file, page, uploaded_file, df, completed_projects,
          in_progress_projects, confirmed_projects, metrics, messages,
          status, exc>>

\* ------------------------------------------------------------------ bounds
MaxRows == 2

\* ------------------------------------------------------------------ values
None == <<>>
Missing == <<>>
Num(n) == <<n>>
Txt(s) == <<s>>
isna(c) == c = Missing
notna(c) == c # Missing

SeqsUpTo(S, n) == UNION {[1..k -> S] : k \in 0..n}

EmptyFn == [x \in {} |-> x]

\* A table: its column names and its rows, each a function on the columns.
Table(cols, rows) == [ok |-> TRUE, columns |-> cols, rows |-> rows]
\* A file whose bytes are no CSV: read_csv raises on it.
Malformed == [ok |-> FALSE, columns |-> {}, rows |-> <<>>]

RestrictRows(rows, cols) ==
    [i \in 1..Len(rows) |-> [c \in cols |-> rows[i][c]]]

len(t) == Len(t.rows)
Column(t, c) == [i \in 1..Len(t.rows) |-> t.rows[i][c]]

\* df[name] = values: the column is added, or replaced when it exists.
SetColumn(t, name, values) ==
    [t EXCEPT !.columns = @ \cup {name},
              !.rows = [i \in 1..Len(t.rows) |->
                           [c \in t.columns \cup {name} |->
                               IF c = name THEN values[i] ELSE t.rows[i][c]]]]

\* df[mask]: the rows whose index is in the mask, in their order.
RECURSIVE FilterRows(_, _, _)
FilterRows(rows, mask, i) ==
    IF i > Len(rows) THEN <<>>
    ELSE (IF i \in mask THEN <<rows[i]>> ELSE <<>>)
         \o FilterRows(rows, mask, i + 1)

\* ------------------------------------------------------------- reductions
RECURSIVE SumFrom(_, _)
\* Series.sum(): missing cells are skipped; the sum of nothing is 0.
SumFrom(s, i) ==
    IF i > Len(s) THEN 0
    ELSE (IF isna(s[i]) THEN 0 ELSE s[i][1]) + SumFrom(s, i + 1)
sum(s) == SumFrom(s, 1)

RECURSIVE CountFrom(_, _)
\* Series.notna().sum() / Series.count()
CountFrom(s, i) ==
    IF i > Len(s) THEN 0
    ELSE (IF isna(s[i]) THEN 0 ELSE 1) + CountFrom(s, i + 1)
count(s) == CountFrom(s, 1)

\* Series.mean() of a numeric column: NaN when no cell is present.
mean(s) == IF count(s) = 0 THEN Missing ELSE <<sum(s), count(s)>>

\* round(n/d, digits) for d > 0, as the float k / 10^digits (ties to even).
Pow10(k) == IF k = 0 THEN 1 ELSE IF k = 1 THEN 10 ELSE 100
RoundHalfEven(n, d) ==
    LET q == n \div d
        r == n % d
    IN  IF 2 * r < d THEN q
        ELSE IF 2 * r > d THEN q + 1
        ELSE IF q % 2 = 0 THEN q ELSE q + 1
round(x, digits) ==
    IF x = Missing THEN Missing
    ELSE <<RoundHalfEven(x[1] * Pow10(digits), x[2]), Pow10(digits)>>

\* f"{x:.1f}" and f"{x:,.0f}": the float to the given number of decimals;
\* nan and inf print as they are
fmt(x, digits) ==
    IF x = Missing \/ x[2] = 0 THEN x
    ELSE IF x[2] < 0 THEN round(<<-x[1], -x[2]>>, digits)
    ELSE round(x, digits)

\* Elementwise arithmetic of two cells; a missing operand gives a missing cell.
Add(a, b) == IF isna(a) \/ isna(b) THEN Missing ELSE Num(a[1] + b[1])
Sub(a, b) == IF isna(a) \/ isna(b) THEN Missing ELSE Num(a[1] - b[1])
Mul(a, b) == IF isna(a) \/ isna(b) THEN Missing ELSE Num(a[1] * b[1])
\* (a / b) * 100 in floats: x/0 is +-inf, 0/0 is NaN, no exception.
DivPct(a, b) ==
    IF isna(a) \/ isna(b) THEN Missing
    ELSE IF b[1] = 0
         THEN (IF a[1] = 0 THEN Missing
               ELSE IF a[1] > 0 THEN <<1, 0>> ELSE <<-1, 0>>)
         ELSE <<a[1] * 100, b[1]>>

\* ----------------------------------------------------------- value_counts
RECURSIVE Occurrences(_, _, _)
Occurrences(s, v, i) ==
    IF i > Len(s) THEN 0
    ELSE (IF s[i] = v THEN 1 ELSE 0) + Occurrences(s, v, i + 1)

RECURSIVE DistinctFrom(_, _, _)
\* the distinct non-missing values of s in first-encountered order
DistinctFrom(s, i, seen) ==
    IF i > Len(s) THEN <<>>
    ELSE IF isna(s[i]) \/ s[i] \in seen THEN DistinctFrom(s, i + 1, seen)
    ELSE <<s[i]>> \o DistinctFrom(s, i + 1, seen \cup {s[i]})

RECURSIVE InsertByCount(_, _)
\* stable insertion into a sequence ordered by count, largest first
InsertByCount(sorted, e) ==
    IF sorted = <<>> THEN <<e>>
    ELSE IF Head(sorted).count >= e.count
         THEN <<Head(sorted)>> \o InsertByCount(Tail(sorted), e)
         ELSE <<e>> \o sorted

RECURSIVE SortByCount(_, _, _)
SortByCount(entries, i, acc) ==
    IF i > Len(entries) THEN acc
    ELSE SortByCount(entries, i + 1, InsertByCount(acc, entries[i]))

RECURSIVE DistinctWithMissingFrom(_, _, _)
\* the distinct values of s, the missing one among them
DistinctWithMissingFrom(s, i, seen) ==
    IF i > Len(s) THEN <<>>
    ELSE IF s[i] \in seen THEN DistinctWithMissingFrom(s, i + 1, seen)
    ELSE <<s[i]>> \o DistinctWithMissingFrom(s, i + 1, seen \cup {s[i]})

\* a count that keeps the missing value as a category
value_counts_keeping_missing(s) ==
    LET vals == DistinctWithMissingFrom(s, 1, {})
        entries == [k \in 1..Len(vals) |->
                       [value |-> vals[k], count |-> Occurrences(s, vals[k], 1)]]
    IN  SortByCount(entries, 1, <<>>)

\* Series.value_counts(): one entry per distinct non-missing value with its
\* number of occurrences, most frequent first.
value_counts(s) ==
    LET vals == DistinctFrom(s, 1, {})
        entries == [k \in 1..Len(vals) |->
                       [value |-> vals[k], count |-> Occurrences(s, vals[k], 1)]]
    IN  SortByCount(entries, 1, <<>>)

\* ------------------------------------------------------ emitting outputs
\* A step of a script: the columns it reads and what it emits when they are
\* all there.  Reading an absent column raises KeyError.
RECURSIVE FirstFailing(_, _)
FirstFailing(steps, i) ==
    IF i > Len(steps) THEN 0
    ELSE IF steps[i].ok THEN FirstFailing(steps, i + 1) ELSE i

RECURSIVE Emitted(_, _, _)
\* what the steps before step `stop` emit (all of them when stop = 0)
Emitted(steps, i, stop) ==
    IF i > Len(steps) \/ (stop # 0 /\ i >= stop) THEN EmptyFn
    ELSE steps[i].out @@ Emitted(steps, i + 1, stop)

Step(ok, out) == [ok |-> ok, out |-> IF ok THEN out ELSE EmptyFn]
Out(name, value) == name :> value

Notice(kind, text, names) == [kind |-> kind, text |-> text, names |-> names]

\* ================================================================ HR page
HROptional == {"Department", "Position", "Gender", "Exit Date",
               "Turnover Type", "Hours Worked", "Salary Per Hour",
               "Absenteeism Days"}

HRRow(dept, pos, gender, exit, ttype, hours, rate, absent) ==
    [c \in HROptional |->
        CASE c = "Department" -> dept
          [] c = "Position" -> pos
          [] c = "Gender" -> gender
          [] c = "Exit Date" -> exit
          [] c = "Turnover Type" -> ttype
          [] c = "Hours Worked" -> hours
          [] c = "Salary Per Hour" -> rate
          [] c = "Absenteeism Days" -> absent]

\* The rows HR files are made of: staying and leaving employees, cells missing.
HRRows == {
    HRRow(Txt("Eng"), Txt("Engineer"), Txt("F"), Missing, Missing,
          Num(40), Num(20), Num(1)),
    HRRow(Txt("Eng"), Txt("Manager"), Txt("M"), Txt("2024-01-02"),
          Txt("Voluntary"), Num(35), Num(30), Num(0)),
    HRRow(Txt("Ops"), Txt("Engineer"), Txt("F"), Txt("2024-01-03"),
          Txt("Involuntary"), Missing, Num(25), Num(3)),
    HRRow(Missing, Txt("Clerk"), Missing, Missing, Missing,
          Num(38), Num(15), Missing) }

HRFiles ==
    {Table(cols, RestrictRows(rows, cols)) :
        cols \in SUBSET HROptional, rows \in SeqsUpTo(HRRows, MaxRows)}

\* src/app.py:19-21.  pd.read_csv raises on bytes that are no CSV.
load_data(f) == IF f.ok THEN [raised |-> FALSE, df |-> f]
                ELSE [raised |-> TRUE, df |-> f]

\* src/app.py:33
total_employees(t) == len(t)

\* turnover_rate with the leavers set against those who stayed
turnover_rate_of_stayers(t) ==
    LET exits == count(Column(t, "Exit Date"))
    IN  IF total_employees(t) = exits THEN Missing
        ELSE round(<<exits * 100, total_employees(t) - exits>>, 1)

\* src/app.py:60-61.  exits is a numpy integer: exits / 0 is NaN (a warning,
\* no exception), and round(NaN, 1) is NaN.
turnover_rate(t) ==
    LET exits == count(Column(t, "Exit Date"))
    IN  IF total_employees(t) = 0 THEN Missing
        ELSE round(<<exits * 100, total_employees(t)>>, 1)

\* src/app.py:76
OutputProxy(t) ==
    [i \in 1..len(t) |->
        Mul(t.rows[i]["Hours Worked"], t.rows[i]["Salary Per Hour"])]

\* a derivation that puts the product into the Hours Worked column
HRDeriveInPlace(t) ==
    IF {"Hours Worked", "Salary Per Hour"} \subseteq t.columns
    THEN SetColumn(t, "Hours Worked", OutputProxy(t))
    ELSE t

\* src/app.py:75-76: the table after the metrics section
HRDerive(t) ==
    IF {"Hours Worked", "Salary Per Hour"} \subseteq t.columns
    THEN SetColumn(t, "Output Proxy", OutputProxy(t))
    ELSE t

\* src/app.py:25-93: the metrics section, every block behind its column test
HRMetrics(t) ==
    Out("Total Employees", Num(total_employees(t)))
    @@ (IF "Department" \in t.columns
        THEN Out("Employees by Department", value_counts(Column(t, "Department")))
        ELSE EmptyFn)
    @@ (IF "Position" \in t.columns
        THEN Out("Employees by Role", value_counts(Column(t, "Position")))
        ELSE EmptyFn)
    @@ (IF "Gender" \in t.columns
        THEN Out("Gender Distribution", value_counts(Column(t, "Gender")))
        ELSE EmptyFn)
    @@ (IF "Exit Date" \in t.columns
        THEN Out("Turnover Rate", turnover_rate(t))
             @@ (IF "Turnover Type" \in t.columns
                 THEN Out("Voluntary vs Involuntary Turnover",
                          value_counts(Column(t, "Turnover Type")))
                 ELSE EmptyFn)
        ELSE EmptyFn)
    @@ (IF {"Hours Worked", "Salary Per Hour"} \subseteq t.columns
        THEN Out("Avg Output Proxy", round(mean(OutputProxy(t)), 2))
        ELSE EmptyFn)
    @@ (IF "Absenteeism Days" \in t.columns
        THEN Out("Avg Absenteeism Days",
                 round(mean(Column(t, "Absenteeism Days")), 2))
        ELSE EmptyFn)
    @@ Out("Actionable Insights", Num(1))

\* One run of src/app.py.  The script has no try/except: an exception ends
\* the run as a fault.  Without an upload df is never assigned and line 25
\* reads it (NameError).
HRPage ==
    \E up \in {None, <<file>>} :
        /\ page' = "hr"
        /\ uploaded_file' = up
        /\ UNCHANGED <<file, completed_projects, in_progress_projects,
                       confirmed_projects>>
        /\ messages' = <<>>
        /\ IF up = None
           THEN /\ df' = None
                /\ metrics' = EmptyFn
                /\ status' = "fault"
                /\ exc' = "NameError"
           ELSE LET l == load_data(up[1])
                IN  IF l.raised
                    THEN /\ df' = None
                         /\ metrics' = EmptyFn
                         /\ status' = "fault"
                         /\ exc' = "ParserError"
                    ELSE /\ df' = <<HRDerive(l.df)>>
                         /\ metrics' = HRMetrics(l.df)
                         /\ status' = "ok"
                         /\ exc' = "none"

\* ================================================================== dates
\* The day number of a date text (days after 2023-12-31); other texts are
\* no dates.
DateTexts == {"2024-01-01", "2024-01-02", "2024-01-03", "2024-01-05"}
DayOf(s) ==
    CASE s = "2024-01-01" -> 1
      [] s = "2024-01-02" -> 2
      [] s = "2024-01-03" -> 3
      [] s = "2024-01-05" -> 5

Parseable(c) == isna(c) \/ c[1] \in DateTexts

\* pd.to_datetime(series, errors=...): a missing cell becomes NaT, a date
\* text its date; a text that is no date becomes NaT under errors='coerce'
\* and raises ValueError under the default errors='raise'.
to_datetime(s, coerce) ==
    [raised |-> ~coerce /\ \E i \in 1..Len(s) : ~Parseable(s[i]),
     values |-> [i \in 1..Len(s) |->
                    IF isna(s[i]) \/ s[i][1] \notin DateTexts THEN Missing
                    ELSE Num(DayOf(s[i][1]))]]

RECURSIVE MinFrom(_, _, _)
\* Series.min() / max() skip missing cells; NaT when none is present
MinFrom(s, i, best) ==
    IF i > Len(s) THEN best
    ELSE MinFrom(s, i + 1,
                 IF isna(s[i]) THEN best
                 ELSE IF best = Missing \/ s[i][1] < best[1] THEN s[i] ELSE best)
min(s) == MinFrom(s, 1, Missing)

RECURSIVE MaxFrom(_, _, _)
MaxFrom(s, i, best) ==
    IF i > Len(s) THEN best
    ELSE MaxFrom(s, i + 1,
                 IF isna(s[i]) THEN best
                 ELSE IF best = Missing \/ s[i][1] > best[1] THEN s[i] ELSE best)
max(s) == MaxFrom(s, 1, Missing)

\* ========================================================= financial page
FinRequired == {"date", "revenue", "cogs", "salaries", "rent", "marketing",
                "utilities", "interest_paid", "investment_losses",
                "legal_settlements"}

FinRow(date, rev, cogs, sal, rent, mkt, util, interest, losses, legal) ==
    [c \in FinRequired |->
        CASE c = "date" -> date
          [] c = "revenue" -> rev
          [] c = "cogs" -> cogs
          [] c = "salaries" -> sal
          [] c = "rent" -> rent
          [] c = "marketing" -> mkt
          [] c = "utilities" -> util
          [] c = "interest_paid" -> interest
          [] c = "investment_losses" -> losses
          [] c = "legal_settlements" -> legal]

\* The rows financial files are made of: ordinary days, a day without
\* revenue, missing cells, a loss-making day, a date that is no date.
FinRows == {
    FinRow(Txt("2024-01-01"), Num(100), Num(60), Num(10), Num(5), Num(3),
           Num(2), Num(1), Num(1), Num(0)),
    FinRow(Txt("2024-01-02"), Num(200), Num(80), Num(20), Num(5), Num(4),
           Num(3), Num(1), Num(0), Num(5)),
    FinRow(Txt("2024-01-05"), Num(0), Num(0), Num(10), Num(5), Num(0),
           Num(2), Num(1), Num(0), Num(0)),
    FinRow(Missing, Num(150), Num(90), Missing, Num(5), Num(3),
           Num(2), Num(1), Missing, Num(0)),
    FinRow(Txt("2024-01-03"), Num(50), Num(70), Num(10), Missing, Num(3),
           Num(2), Num(1), Num(2), Num(0)),
    FinRow(Txt("not a date"), Num(120), Num(70), Num(10), Num(5), Num(3),
           Num(2), Num(1), Num(1), Num(1)) }

\* how many columns a generated file may lack
MaxDropped == 2

FinFiles ==
    {Table(cols, RestrictRows(rows, cols)) :
        cols \in {x \in SUBSET FinRequired : Cardinality(FinRequired \ x) <= MaxDropped},
        rows \in SeqsUpTo(FinRows, MaxRows)}

\* One assignment df[name] = f(df[...]) of calculate_financial_metrics: the
\* columns it reads and the column it writes.
FinDerived == <<"gross_profit", "operating_expenses", "non_operating_expenses",
                "total_expenses", "net_profit", "gross_profit_margin",
                "net_profit_margin">>

FinReads(name) ==
    CASE name = "gross_profit" -> <<"revenue", "cogs">>
      [] name = "operating_expenses" ->
             <<"salaries", "rent", "marketing", "utilities">>
      [] name = "non_operating_expenses" ->
             <<"interest_paid", "investment_losses", "legal_settlements">>
      [] name = "total_expenses" ->
             <<"operating_expenses", "non_operating_expenses">>
      [] name = "net_profit" -> <<"gross_profit", "total_expenses">>
      [] name = "gross_profit_margin" -> <<"gross_profit", "revenue">>
      [] name = "net_profit_margin" -> <<"net_profit", "revenue">>

\* FinFormula with gross_profit added to the column when it is already there
FinFormulaAccumulating(name, r) ==
    CASE name = "gross_profit" ->
             IF "gross_profit" \in DOMAIN r
             THEN Add(r["gross_profit"], Sub(r["revenue"], r["cogs"]))
             ELSE Sub(r["revenue"], r["cogs"])
      [] name = "operating_expenses" ->
             Add(Add(Add(r["salaries"], r["rent"]), r["marketing"]), r["utilities"])
      [] name = "non_operating_expenses" ->
             Add(Add(r["interest_paid"], r["investment_losses"]),
                 r["legal_settlements"])
      [] name = "total_expenses" ->
             Add(r["operating_expenses"], r["non_operating_expenses"])
      [] name = "net_profit" -> Sub(r["gross_profit"], r["total_expenses"])
      [] name = "gross_profit_margin" -> DivPct(r["gross_profit"], r["revenue"])
      [] name = "net_profit_margin" -> DivPct(r["net_profit"], r["revenue"])

\* src/pages/1_financialdashboard.py:46-54, the value of one row
FinFormula(name, r) ==
    CASE name = "gross_profit" -> Sub(r["revenue"], r["cogs"])
      [] name = "operating_expenses" ->
             Add(Add(Add(r["salaries"], r["rent"]), r["marketing"]), r["utilities"])
      [] name = "non_operating_expenses" ->
             Add(Add(r["interest_paid"], r["investment_losses"]),
                 r["legal_settlements"])
      [] name = "total_expenses" ->
             Add(r["operating_expenses"], r["non_operating_expenses"])
      [] name = "net_profit" -> Sub(r["gross_profit"], r["total_expenses"])
      [] name = "gross_profit_margin" -> DivPct(r["gross_profit"], r["revenue"])
      [] name = "net_profit_margin" -> DivPct(r["net_profit"], r["revenue"])

Range(s) == {s[i] : i \in 1..Len(s)}

RECURSIVE DeriveFrom(_, _)
\* the assignments from the k-th on, in order; the first one that reads an
\* absent column raises KeyError and leaves the table as it is by then
DeriveFrom(t, k) ==
    IF k > Len(FinDerived) THEN [raised |-> FALSE, df |-> t]
    ELSE IF ~(Range(FinReads(FinDerived[k])) \subseteq t.columns)
         THEN [raised |-> TRUE, df |-> t]
         ELSE DeriveFrom(
                  SetColumn(t, FinDerived[k],
                            [i \in 1..len(t) |-> FinFormula(FinDerived[k], t.rows[i])]),
                  k + 1)

\* src/pages/1_financialdashboard.py:42-56
calculate_financial_metrics(t) == DeriveFrom(t, 1)

\* a chart's traces: for every row, in the table's row order, the x value
\* and the y values
Series(t, x, ys) ==
    [i \in 1..len(t) |-> [c \in {x} \cup ys |-> t.rows[i][c]]]

\* x < y for two present numeric cells, integers or floats n/d (d # 0)
Numer(x) == IF Len(x) = 2 /\ x[2] < 0 THEN -x[1] ELSE x[1]
Denom(x) == IF Len(x) = 2 THEN (IF x[2] < 0 THEN -x[2] ELSE x[2]) ELSE 1
Less(x, y) == Numer(x) * Denom(y) < Numer(y) * Denom(x)

RECURSIVE InsertDescUnstable(_, _, _)
\* an insertion that puts a row before the rows it ties with
InsertDescUnstable(sorted, r, c) ==
    IF sorted = <<>> THEN <<r>>
    ELSE IF notna(r[c])
            /\ (isna(Head(sorted)[c]) \/ ~Less(r[c], Head(sorted)[c]))
         THEN <<r>> \o sorted
         ELSE <<Head(sorted)>> \o InsertDescUnstable(Tail(sorted), r, c)

RECURSIVE InsertDesc(_, _, _)
\* stable insertion, largest first, missing cells last
InsertDesc(sorted, r, c) ==
    IF sorted = <<>> THEN <<r>>
    ELSE IF notna(r[c])
            /\ (isna(Head(sorted)[c]) \/ Less(Head(sorted)[c], r[c]))
         THEN <<r>> \o sorted
         ELSE <<Head(sorted)>> \o InsertDesc(Tail(sorted), r, c)

RECURSIVE SortDesc(_, _, _, _)
SortDesc(rows, c, i, acc) ==
    IF i > Len(rows) THEN acc
    ELSE SortDesc(rows, c, i + 1, InsertDesc(acc, rows[i], c))

\* df.sort_values(c, ascending=False)
sort_values_desc(t, c) == SortDesc(t.rows, c, 1, <<>>)

\* .head(n)
head(rows, n) == SubSeq(rows, 1, IF Len(rows) < n THEN Len(rows) ELSE n)

RECURSIVE InsertAsc(_, _, _)
\* stable insertion, smallest first, missing cells last
InsertAsc(sorted, r, c) ==
    IF sorted = <<>> THEN <<r>>
    ELSE IF notna(r[c])
            /\ (isna(Head(sorted)[c]) \/ Less(r[c], Head(sorted)[c]))
         THEN <<r>> \o sorted
         ELSE <<Head(sorted)>> \o InsertAsc(Tail(sorted), r, c)

RECURSIVE SortAsc(_, _, _, _)
SortAsc(rows, c, i, acc) ==
    IF i > Len(rows) THEN acc
    ELSE SortAsc(rows, c, i + 1, InsertAsc(acc, rows[i], c))

\* df.sort_values(c, ascending=True)
sort_values_asc(t, c) == SortAsc(t.rows, c, 1, <<>>)

\* the n rows with the largest (ascending: the smallest) value in column:
\* df.sort_values(column, ascending=ascending).head(n)
top_n(t, column, n, ascending) ==
    head(IF ascending THEN sort_values_asc(t, column)
         ELSE sort_values_desc(t, column), n)

\* the n rows with the smallest value in column
bottom_n(t, column, n) == top_n(t, column, n, TRUE)

\* the HR profile ranks five employees at each end
TopN == 5

PreviewRows == 10

RECURSIVE Gcd(_, _)
Gcd(a, b) == IF b = 0 THEN a ELSE Gcd(b, a % b)

Abs(n) == IF n < 0 THEN -n ELSE n

\* the float n/d in lowest terms: the same number
Lowest(x) ==
    LET g == Gcd(Abs(x[1]), Abs(x[2]))
    IN  IF g = 0 \/ x[2] = 0 THEN x ELSE <<x[1] \div g, x[2] \div g>>

\* the sum of two floats n/d
AddFrac(a, b) == Lowest(<<a[1] * b[2] + b[1] * a[2], a[2] * b[2]>>)

RECURSIVE SumFracFrom(_, _)
SumFracFrom(s, i) ==
    IF i > Len(s) THEN <<0, 1>>
    ELSE IF isna(s[i]) THEN SumFracFrom(s, i + 1)
    ELSE AddFrac(s[i], SumFracFrom(s, i + 1))

\* Series.mean() of a float column (no infinite cell): missing cells skipped
meanf(s) ==
    IF count(s) = 0 THEN Missing
    ELSE LET total == SumFracFrom(s, 1)
         IN  Lowest(<<total[1], total[2] * count(s)>>)

\* the metric cards with the gross margin taken as the mean of the rows'
\* margins
FinKeyMetricsMeanOfMargins(t) ==
    LET total_revenue == Num(sum(Column(t, "revenue")))
        total_gross_profit == Num(sum(Column(t, "gross_profit")))
        total_net_profit == Num(sum(Column(t, "net_profit")))
    IN  Out("Total Revenue", total_revenue)
        @@ Out("Gross Profit", total_gross_profit)
        @@ Out("Gross Margin", fmt(meanf(Column(t, "gross_profit_margin")), 1))
        @@ Out("Net Profit", total_net_profit)
        @@ Out("Net Margin", fmt(DivPct(total_net_profit, total_revenue), 1))
        @@ Out("Avg Daily Revenue", fmt(mean(Column(t, "revenue")), 2))

\* src/pages/1_financialdashboard.py:192-208, the four metric cards
FinKeyMetrics(t) ==
    LET total_revenue == Num(sum(Column(t, "revenue")))
        total_gross_profit == Num(sum(Column(t, "gross_profit")))
        total_net_profit == Num(sum(Column(t, "net_profit")))
    IN  Out("Total Revenue", total_revenue)
        @@ Out("Gross Profit", total_gross_profit)
        @@ Out("Gross Margin", fmt(DivPct(total_gross_profit, total_revenue), 1))
        @@ Out("Net Profit", total_net_profit)
        @@ Out("Net Margin", fmt(DivPct(total_net_profit, total_revenue), 1))
        @@ Out("Avg Daily Revenue", fmt(mean(Column(t, "revenue")), 2))

\* src/pages/1_financialdashboard.py:91-105 and 241-253
FinExpenses(t) ==
    Out("Salaries", Num(sum(Column(t, "salaries"))))
    @@ Out("Rent", Num(sum(Column(t, "rent"))))
    @@ Out("Marketing", Num(sum(Column(t, "marketing"))))
    @@ Out("Utilities", Num(sum(Column(t, "utilities"))))
    @@ Out("Total Operating", Num(sum(Column(t, "operating_expenses"))))
    @@ Out("Interest Paid", Num(sum(Column(t, "interest_paid"))))
    @@ Out("Investment Losses", Num(sum(Column(t, "investment_losses"))))
    @@ Out("Legal Settlements", Num(sum(Column(t, "legal_settlements"))))
    @@ Out("Total Non-Operating", Num(sum(Column(t, "non_operating_expenses"))))

\* src/pages/1_financialdashboard.py:186-261: what follows the Data Period
FinDashboard(t) ==
    Out("Total Records", Num(len(t)))
    @@ FinKeyMetrics(t)
    @@ Out("Profit Trends",
           Series(t, "date", {"revenue", "gross_profit", "net_profit"}))
    @@ FinExpenses(t)
    @@ Out("Profit Margins",
           Series(t, "date", {"gross_profit_margin", "net_profit_margin"}))
    @@ Out("Data Preview", top_n(t, "date", PreviewRows, FALSE))

\* FinError without the names of the expected columns
FinErrorUnnamed(e) ==
    << Notice("error", "Error processing file", {}),
       Notice("info", "Please make sure your CSV file has the required columns", {}) >>

\* src/pages/1_financialdashboard.py:265-267
FinError(e) ==
    << Notice("error", "Error processing file", {}),
       Notice("info", "Please make sure your CSV file has the required columns",
              FinRequired) >>

\* One run of main() of the financial page.  The whole of the upload branch
\* is inside try/except Exception (lines 175-267).
FinancialPage ==
    \E up \in {None, <<file>>} :
        /\ page' = "financial"
        /\ uploaded_file' = up
        /\ UNCHANGED <<file, completed_projects, in_progress_projects,
                       confirmed_projects>>
        /\ IF up = None
           THEN \* lines 269-287: the instructions and the sample table
                /\ df' = None
                /\ metrics' = Out("Expected CSV Format", Num(1))
                /\ messages' = <<Notice("info", "Please upload a CSV file", {})>>
                /\ status' = "ok"
                /\ exc' = "none"
           ELSE LET l == load_data(up[1])
                    hasDate == "date" \in l.df.columns
                    d == to_datetime(Column(l.df, "date"), FALSE)
                    dated == SetColumn(l.df, "date", d.values)
                    c == calculate_financial_metrics(dated)
                    period == <<min(Column(c.df, "date")), max(Column(c.df, "date"))>>
                IN  IF l.raised
                    THEN /\ df' = None
                         /\ metrics' = EmptyFn
                         /\ messages' = FinError("ParserError")
                         /\ status' = "error"
                         /\ exc' = "ParserError"
                    ELSE IF ~hasDate
                    THEN /\ df' = <<l.df>>
                         /\ metrics' = EmptyFn
                         /\ messages' = FinError("KeyError")
                         /\ status' = "error"
                         /\ exc' = "KeyError"
                    ELSE IF d.raised
                    THEN /\ df' = <<l.df>>
                         /\ metrics' = EmptyFn
                         /\ messages' = FinError("ValueError")
                         /\ status' = "error"
                         /\ exc' = "ValueError"
                    ELSE IF c.raised
                    THEN /\ df' = <<c.df>>
                         /\ metrics' = EmptyFn
                         /\ messages' = FinError("KeyError")
                         /\ status' = "error"
                         /\ exc' = "KeyError"
                    ELSE IF period[1] = Missing
                    THEN \* NaT.strftime raises ValueError (line 183)
                         /\ df' = <<c.df>>
                         /\ metrics' = EmptyFn
                         /\ messages' =
                                <<Notice("success", "File successfully uploaded", {})>>
                                \o FinError("ValueError")
                         /\ status' = "error"
                         /\ exc' = "ValueError"
                    ELSE /\ df' = <<c.df>>
                         /\ metrics' = Out("Data Period", period) @@ FinDashboard(c.df)
                         /\ messages' =
                                <<Notice("success", "File successfully uploaded", {})>>
                         /\ status' = "ok"
                         /\ exc' = "none"

\* ====================================================== construction page
ConRequired == {"project_name", "project_status"}
ConOptional == {"start_date", "end_date", "actual_end_date", "planned_budget",
                "actual_budget", "labor_hours_planned", "labor_hours_actual",
                "client_satisfaction_score", "project_difficulty"}
ConColumns == ConRequired \cup ConOptional

ConRow(name, pstatus, start, end, aend, pb, ab, lhp, lha, score, diff) ==
    [c \in ConColumns |->
        CASE c = "project_name" -> name
          [] c = "project_status" -> pstatus
          [] c = "start_date" -> start
          [] c = "end_date" -> end
          [] c = "actual_end_date" -> aend
          [] c = "planned_budget" -> pb
          [] c = "actual_budget" -> ab
          [] c = "labor_hours_planned" -> lhp
          [] c = "labor_hours_actual" -> lha
          [] c = "client_satisfaction_score" -> score
          [] c = "project_difficulty" -> diff]

\* The rows construction files are made of: a finished project, a finished
\* project whose three divisors are 0, a running and a confirmed one, a
\* status outside the three, a missing status, dates that are no dates.
ConRows == {
    ConRow(Txt("Tower"), Txt("Completed"), Txt("2024-01-01"), Txt("2024-01-03"),
           Txt("2024-01-05"), Num(100), Num(120), Num(10), Num(8), Num(4),
           Txt("High")),
    ConRow(Txt("Depot"), Txt("Completed"), Txt("2024-01-02"), Txt("2024-01-02"),
           Txt("2024-01-03"), Num(0), Num(50), Num(10), Num(0), Num(5),
           Txt("Low")),
    ConRow(Txt("School"), Txt("Completed"), Txt("2024-01-01"), Txt("not a date"),
           Txt("2024-01-02"), Num(80), Num(60), Num(6), Num(12), Missing,
           Txt("Medium")),
    ConRow(Txt("Bridge"), Txt("In Progress"), Txt("2024-01-03"), Txt("2024-01-05"),
           Missing, Num(200), Num(0), Num(40), Num(32), Num(0), Txt("Medium")),
    ConRow(Txt("Mall"), Txt("Confirmed"), Txt("not a date"), Txt("2024-01-05"),
           Missing, Num(300), Missing, Num(50), Missing, Missing, Txt("High")),
    ConRow(Txt("Road"), Txt("On Hold"), Txt("2024-01-02"), Txt("2024-01-03"),
           Missing, Num(150), Num(10), Num(20), Num(2), Missing, Missing),
    ConRow(Txt("Dock"), Missing, Missing, Missing, Missing, Missing, Missing,
           Missing, Missing, Missing, Missing) }

ConFiles ==
    {Table(cols, RestrictRows(rows, cols)) :
        cols \in {ConRequired \cup x : x \in
                     {y \in SUBSET ConOptional : Cardinality(ConOptional \ y) <= MaxDropped}},
        rows \in SeqsUpTo(ConRows, MaxRows)}

\* src/pages/2_metrcispage.py:59-62: each date column that is there is parsed
\* with errors='coerce'
date_columns == <<"start_date", "end_date", "actual_end_date">>

RECURSIVE ConvertDates(_, _)
ConvertDates(t, k) ==
    IF k > Len(date_columns) THEN t
    ELSE ConvertDates(
             IF date_columns[k] \in t.columns
             THEN SetColumn(t, date_columns[k],
                            to_datetime(Column(t, date_columns[k]), TRUE).values)
             ELSE t,
             k + 1)

\* StatusSubset that also takes the rows whose status is none of the three
StatusSubsetLoose(t, value) ==
    [t EXCEPT !.rows =
        FilterRows(t.rows,
                   {i \in 1..len(t) :
                       \/ t.rows[i]["project_status"] = Txt(value)
                       \/ /\ notna(t.rows[i]["project_status"])
                          /\ t.rows[i]["project_status"][1] \notin
                                 {"Completed", "In Progress", "Confirmed"}},
                   1)]

\* df[df['project_status'] == value].copy(); a missing status equals nothing
StatusSubset(t, value) ==
    [t EXCEPT !.rows =
        FilterRows(t.rows,
                   {i \in 1..len(t) : t.rows[i]["project_status"] = Txt(value)},
                   1)]

\* replace01 that leaves a 0 divisor as it is
replace01_missing(c) == c

\* Series.replace(0, 1)
replace01(c) == IF c = Num(0) THEN Num(1) ELSE c

\* src/pages/2_metrcispage.py:72-78: the five columns added to the Completed
\* subset, in order, with the columns each assignment reads in reading order
ConDerived == <<"planned_duration", "actual_duration", "schedule_variance",
                "labor_productivity", "budget_variance">>

ConReads(name) ==
    CASE name = "planned_duration" -> <<"end_date", "start_date">>
      [] name = "actual_duration" -> <<"actual_end_date", "start_date">>
      [] name = "schedule_variance" -> <<"planned_duration", "actual_duration">>
      [] name = "labor_productivity" ->
             <<"labor_hours_planned", "labor_hours_actual">>
      [] name = "budget_variance" -> <<"actual_budget", "planned_budget">>

ConFormula(name, r) ==
    CASE name = "planned_duration" -> Sub(r["end_date"], r["start_date"])
      [] name = "actual_duration" -> Sub(r["actual_end_date"], r["start_date"])
      [] name = "schedule_variance" ->
             DivPct(Sub(r["planned_duration"], r["actual_duration"]),
                    replace01(r["planned_duration"]))
      [] name = "labor_productivity" ->
             DivPct(r["labor_hours_planned"], replace01(r["labor_hours_actual"]))
      [] name = "budget_variance" ->
             DivPct(Sub(r["actual_budget"], r["planned_budget"]),
                    replace01(r["planned_budget"]))

RECURSIVE ConDeriveFrom(_, _)
ConDeriveFrom(t, k) ==
    IF k > Len(ConDerived) THEN [raised |-> FALSE, df |-> t]
    ELSE IF ~(Range(ConReads(ConDerived[k])) \subseteq t.columns)
         THEN [raised |-> TRUE, df |-> t]
         ELSE ConDeriveFrom(
                  SetColumn(t, ConDerived[k],
                            [i \in 1..len(t) |-> ConFormula(ConDerived[k], t.rows[i])]),
                  k + 1)

empty(t) == len(t) = 0

\* src/pages/2_metrcispage.py:55-80.  raised: KeyError, from the status
\* column (line 65) or from a column the Completed block reads (72-78).
calculate_construction_metrics(t) ==
    LET dated == ConvertDates(t, 1)
        hasStatus == "project_status" \in t.columns
        completed == StatusSubset(dated, "Completed")
        derived == IF empty(completed) THEN [raised |-> FALSE, df |-> completed]
                   ELSE ConDeriveFrom(completed, 1)
    IN  IF ~hasStatus
        THEN [raised |-> TRUE, df |-> dated, completed_projects |-> None,
              in_progress_projects |-> None, confirmed_projects |-> None]
        ELSE IF derived.raised
        THEN [raised |-> TRUE, df |-> dated, completed_projects |-> None,
              in_progress_projects |-> None, confirmed_projects |-> None]
        ELSE [raised |-> FALSE, df |-> dated,
              completed_projects |-> <<derived.df>>,
              in_progress_projects |-> <<StatusSubset(dated, "In Progress")>>,
              confirmed_projects |-> <<StatusSubset(dated, "Confirmed")>>]

NoCompleted == Txt("No completed projects available")

\* a details table: the chosen columns of the Completed subset,
\* .sort_values(by, ascending=False)
Details(cp, cols, by) ==
    sort_values_desc([cp EXCEPT !.rows = RestrictRows(cp.rows, cols)], by)

\* src/pages/2_metrcispage.py:188-308: the outputs of main() after the
\* derivation, in order; each step reads columns, and the first step that
\* reads an absent one raises KeyError
ConSteps(t, cp, ip, cf) ==
    << Step(TRUE, Out("Total Projects", Num(len(t)))),
       Step(TRUE, Out("Avg Schedule Variance",
                      IF empty(cp) THEN Txt("N/A")
                      ELSE fmt(meanf(Column(cp, "schedule_variance")), 1))),
       Step(TRUE, Out("Avg Labor Productivity",
                      IF empty(cp) THEN Txt("N/A")
                      ELSE fmt(meanf(Column(cp, "labor_productivity")), 1))),
       Step(empty(cp) \/ "client_satisfaction_score" \in cp.columns,
            Out("Avg Client Satisfaction",
                IF empty(cp) THEN Txt("N/A")
                ELSE fmt(mean(Column(cp, "client_satisfaction_score")), 1))),
       Step("planned_budget" \in t.columns,
            Out("Avg Project Budget", fmt(mean(Column(t, "planned_budget")), 0))),
       Step(TRUE, Out("Completed Projects", Num(len(cp)))),
       Step(TRUE, Out("In Progress Projects", Num(len(ip)))),
       Step(TRUE, Out("Confirmed Projects", Num(len(cf)))),
       Step(TRUE, Out("Avg Budget Variance",
                      IF empty(cp) THEN Txt("N/A")
                      ELSE fmt(meanf(Column(cp, "budget_variance")), 1))),
       Step(empty(cp) \/ "project_name" \in cp.columns,
            Out("Schedule Performance",
                IF empty(cp) THEN <<NoCompleted>>
                ELSE Details(cp, {"project_name", "planned_duration",
                                  "actual_duration", "schedule_variance"},
                             "schedule_variance"))),
       Step(empty(cp) \/ "project_name" \in cp.columns,
            Out("Labor Productivity",
                IF empty(cp) THEN <<NoCompleted>>
                ELSE Details(cp, {"project_name", "labor_hours_planned",
                                  "labor_hours_actual", "labor_productivity"},
                             "labor_productivity"))),
       Step(empty(cp) \/ "project_name" \in cp.columns,
            Out("Budget Performance",
                IF empty(cp) THEN <<NoCompleted>>
                ELSE Details(cp, {"project_name", "planned_budget",
                                  "actual_budget", "budget_variance"},
                             "budget_variance"))),
       Step(empty(cp) \/ {"project_name", "client_satisfaction_score",
                          "project_difficulty"} \subseteq cp.columns,
            Out("Client Satisfaction",
                IF empty(cp) THEN <<NoCompleted>>
                ELSE Details(cp, {"project_name", "client_satisfaction_score",
                                  "project_difficulty"},
                             "client_satisfaction_score"))),
       Step(TRUE, Out("Project Status Distribution",
                      value_counts(Column(t, "project_status")))),
       Step({"project_name", "project_status", "start_date", "end_date",
             "planned_budget", "project_difficulty"} \subseteq t.columns,
            Out("Project Portfolio Overview",
                RestrictRows(t.rows, {"project_name", "project_status",
                                      "start_date", "end_date", "planned_budget",
                                      "project_difficulty"}))),
       Step(TRUE, Out("Raw Data Preview", t.rows)) >>

ConError ==
    << Notice("error", "Error processing file", {}),
       Notice("info", "Please make sure your CSV file has the required columns", {}) >>

\* One run of main() of the construction page.  The whole of the upload
\* branch is inside try/except Exception (lines 183-314).
ConstructionPage ==
    \E up \in {None, <<file>>} :
        /\ page' = "construction"
        /\ uploaded_file' = up
        /\ UNCHANGED file
        /\ IF up = None
           THEN \* lines 316-337: the instructions and the sample table
                /\ df' = None
                /\ completed_projects' = None
                /\ in_progress_projects' = None
                /\ confirmed_projects' = None
                /\ metrics' = Out("Expected CSV Format", Num(1))
                /\ messages' = <<Notice("info", "Please upload a CSV file", {})>>
                /\ status' = "ok"
                /\ exc' = "none"
           ELSE LET l == load_data(up[1])
                    c == calculate_construction_metrics(l.df)
                    steps == ConSteps(c.df, c.completed_projects[1],
                                      c.in_progress_projects[1],
                                      c.confirmed_projects[1])
                    stop == FirstFailing(steps, 1)
                IN  IF l.raised
                    THEN /\ df' = None
                         /\ completed_projects' = None
                         /\ in_progress_projects' = None
                         /\ confirmed_projects' = None
                         /\ metrics' = EmptyFn
                         /\ messages' = ConError
                         /\ status' = "error"
                         /\ exc' = "ParserError"
                    ELSE IF c.raised
                    THEN /\ df' = <<c.df>>
                         /\ completed_projects' = None
                         /\ in_progress_projects' = None
                         /\ confirmed_projects' = None
                         /\ metrics' = EmptyFn
                         /\ messages' = ConError
                         /\ status' = "error"
                         /\ exc' = "KeyError"
                    ELSE /\ df' = <<c.df>>
                         /\ completed_projects' = c.completed_projects
                         /\ in_progress_projects' = c.in_progress_projects
                         /\ confirmed_projects' = c.confirmed_projects
                         /\ metrics' = Emitted(steps, 1, stop)
                         /\ messages' =
                                <<Notice("success", "File successfully uploaded", {})>>
                                \o (IF stop = 0 THEN <<>> ELSE ConError)
                         /\ status' = IF stop = 0 THEN "ok" ELSE "error"
                         /\ exc' = IF stop = 0 THEN "none" ELSE "KeyError"

\* ============================================================= HR ranking
\* The HR profile's ranking of employees by Hours Worked, with EmployeeNr as
\* the display key: the five rows with the most hours and the five with the
\* fewest.
MaxRankRows == 6

RankColumns == {"EmployeeNr", "Hours Worked"}
RankHours == {Missing, Num(35), Num(40)}

\* employees numbered in row order, each with one of the hours
RankFiles ==
    {Table(RankColumns,
           [i \in 1..Len(hs) |->
               ("EmployeeNr" :> Num(i)) @@ ("Hours Worked" :> hs[i])]) :
        hs \in SeqsUpTo(RankHours, MaxRankRows)}

HRRanking ==
    /\ page' = "hr ranking"
    /\ uploaded_file' = <<file>>
    /\ df' = <<file>>
    /\ metrics' = IF file.ok /\ RankColumns \subseteq file.columns
                  THEN Out("Top 5 by Hours Worked",
                           top_n(file, "Hours Worked", TopN, FALSE))
                       @@ Out("Bottom 5 by Hours Worked",
                              bottom_n(file, "Hours Worked", TopN))
                  ELSE EmptyFn
    /\ messages' = <<>>
    /\ status' = "ok"
    /\ exc' = "none"
    /\ UNCHANGED <<file, completed_projects, in_progress_projects,
                   confirmed_projects>>

\* ========================================================= specifications
Idle(files) ==
    /\ file \in files
    /\ page = "none"
    /\ uploaded_file = None
    /\ df = None
    /\ completed_projects = None
    /\ in_progress_projects = None
    /\ confirmed_projects = None
    /\ metrics = EmptyFn
    /\ messages = <<>>
    /\ status = "idle"
    /\ exc = "none"

InitHR == Idle(HRFiles \cup {Malformed})
NextHR == HRPage
SpecHR == InitHR /\ [][NextHR]_vars

InitFin == Idle(FinFiles \cup {Malformed})
NextFin == FinancialPage
SpecFin == InitFin /\ [][NextFin]_vars

InitCon == Idle(ConFiles \cup {Malformed})
NextCon == ConstructionPage
SpecCon == InitCon /\ [][NextCon]_vars

\* Every page, run on any of the files.
Init == Idle(HRFiles \cup FinFiles \cup ConFiles \cup {Malformed})
Next == HRPage \/ FinancialPage \/ ConstructionPage
Spec == Init /\ [][Next]_vars

\* Every page, run on tables that have all the columns of one profile.
MaxPageRows == 3

\* the rows of the pages' tables: one row of each kind of date and status
PageFinRows ==
    {r \in FinRows : r["date"] \notin {Txt("not a date"), Txt("2024-01-05")}}
PageConRows ==
    {r \in ConRows : r["project_name"] \notin {Txt("Depot"), Txt("School")}}

\* an HR export that already carries a column named Output Proxy
WithOutputProxy(rows) ==
    [i \in 1..Len(rows) |-> rows[i] @@ ("Output Proxy" :> Num(7))]

PageFiles ==
    {Table(HROptional, RestrictRows(rows, HROptional)) :
        rows \in SeqsUpTo(HRRows, MaxPageRows)}
    \cup {Table(HROptional \cup {"Output Proxy"}, WithOutputProxy(rows)) :
            rows \in SeqsUpTo(HRRows, MaxPageRows)}
    \cup {Table(FinRequired, RestrictRows(rows, FinRequired)) :
            rows \in SeqsUpTo(PageFinRows, MaxPageRows)}
    \cup {Table(ConColumns, RestrictRows(rows, ConColumns)) :
            rows \in SeqsUpTo(PageConRows, MaxPageRows)}

InitPages == Idle(PageFiles \cup {Malformed})
NextPages == HRPage \/ FinancialPage \/ ConstructionPage
SpecPages == InitPages /\ [][NextPages]_vars

\* The ranking of employees, on tables long enough to exceed five rows.
InitRank == Idle(RankFiles)
NextRank == HRRanking
SpecRank == InitRank /\ [][NextRank]_vars

\* ================================================================= claims
\* the table that was uploaded in the last run (when there was an upload)
Uploaded == uploaded_file # None /\ uploaded_file[1].ok
Up == uploaded_file[1]

ErrorNotices == {i \in 1..Len(messages) : messages[i].kind = "error"}
SuccessNotices == {i \in 1..Len(messages) : messages[i].kind = "success"}

\* the optional columns each HR output depends on (spec 4.3)
HRDepends ==
    "Total Employees" :> {}
    @@ "Employees by Department" :> {"Department"}
    @@ "Employees by Role" :> {"Position"}
    @@ "Gender Distribution" :> {"Gender"}
    @@ "Turnover Rate" :> {"Exit Date"}
    @@ "Voluntary vs Involuntary Turnover" :> {"Exit Date", "Turnover Type"}
    @@ "Avg Output Proxy" :> {"Hours Worked", "Salary Per Hour"}
    @@ "Avg Absenteeism Days" :> {"Absenteeism Days"}
    @@ "Actionable Insights" :> {}

\* the optional columns each construction output depends on (spec 4.5)
ConDepends ==
    "Total Projects" :> {}
    @@ "Avg Schedule Variance" :> {"start_date", "end_date", "actual_end_date"}
    @@ "Avg Labor Productivity" :> {"labor_hours_planned", "labor_hours_actual"}
    @@ "Avg Client Satisfaction" :> {"client_satisfaction_score"}
    @@ "Avg Project Budget" :> {"planned_budget"}
    @@ "Completed Projects" :> {}
    @@ "In Progress Projects" :> {}
    @@ "Confirmed Projects" :> {}
    @@ "Avg Budget Variance" :> {"planned_budget", "actual_budget"}
    @@ "Schedule Performance" :> {"start_date", "end_date", "actual_end_date"}
    @@ "Labor Productivity" :> {"labor_hours_planned", "labor_hours_actual"}
    @@ "Budget Performance" :> {"planned_budget", "actual_budget"}
    @@ "Client Satisfaction" :> {"client_satisfaction_score", "project_difficulty"}
    @@ "Project Status Distribution" :> {}
    @@ "Project Portfolio Overview" :>
           {"start_date", "end_date", "planned_budget", "project_difficulty"}
    @@ "Raw Data Preview" :> {}

Available(depends, cols) == {n \in DOMAIN depends : depends[n] \subseteq cols}

\* C1 for the HR page alone: a table that lacks optional columns gets exactly
\* the outputs whose columns are all there, and the run ends without an
\* exception.
HRSoftSkip ==
    (page = "hr" /\ Uploaded)
        => /\ status = "ok"
           /\ exc = "none"
           /\ DOMAIN metrics = Available(HRDepends, Up.columns)

\* C1 for the construction page alone.
ConSoftSkip ==
    (page = "construction" /\ Uploaded /\ ConRequired \subseteq Up.columns)
        => /\ status = "ok"
           /\ exc = "none"
           /\ ErrorNotices = {}
           /\ DOMAIN metrics = Available(ConDepends, Up.columns)

\* C1: on the HR page and on the construction page, an uploaded table that
\* lacks any subset of the optional columns gets every output that depends on
\* no absent column and none of the others, and no error is raised or
\* reported.
C1_MissingOptionalColumnIsSoftSkip == HRSoftSkip /\ ConSoftSkip

\* C2: on all three pages, every exception raised while the uploaded file is
\* loaded or its profile computed is caught by the page and reported as one
\* error notice; the run does not end as a fault.
C2_ErrorsCaughtAtPageBoundary ==
    (uploaded_file # None /\ exc # "none")
        => /\ status = "error"
           /\ Cardinality(ErrorNotices) = 1

\* C3: an HR table with zero rows gives total_employees = 0 and, with an
\* Exit Date column, a turnover rate that is a defined value, not NaN.
C3_EmptyTableTurnoverFallback ==
    (page = "hr" /\ Uploaded /\ len(Up) = 0)
        => /\ status = "ok"
           /\ metrics["Total Employees"] = Num(0)
           /\ "Exit Date" \in Up.columns
                => /\ "Turnover Rate" \in DOMAIN metrics
                   /\ metrics["Turnover Rate"] # Missing

\* C4: for every financial table, missing expense cells included, the total
\* of the operating_expenses column is the sum of the four displayed
\* category totals, each the sum of the uploaded column's present cells.
C4_OperatingTotalIsSumOfCategories ==
    (page = "financial" /\ status = "ok" /\ uploaded_file # None)
        => /\ metrics["Salaries"] = Num(sum(Column(Up, "salaries")))
           /\ metrics["Rent"] = Num(sum(Column(Up, "rent")))
           /\ metrics["Marketing"] = Num(sum(Column(Up, "marketing")))
           /\ metrics["Utilities"] = Num(sum(Column(Up, "utilities")))
           /\ metrics["Total Operating"][1] =
                  metrics["Salaries"][1] + metrics["Rent"][1]
                  + metrics["Marketing"][1] + metrics["Utilities"][1]

\* C5: a financial table that lacks a required column aborts the whole
\* profile: no output and no success notice, one error notice, and a notice
\* that names the ten expected columns.
C5_MissingRequiredColumnAborts ==
    (page = "financial" /\ Uploaded /\ ~(FinRequired \subseteq Up.columns))
        => /\ status = "error"
           /\ metrics = EmptyFn
           /\ SuccessNotices = {}
           /\ Cardinality(ErrorNotices) = 1
           /\ \E i \in 1..Len(messages) :
                  /\ messages[i].kind = "info"
                  /\ messages[i].names =
                         {"date", "revenue", "cogs", "salaries", "rent",
                          "marketing", "utilities", "interest_paid",
                          "investment_losses", "legal_settlements"}

\* a table with rows that has its date but lacks rent: the derivation is
\* entered and stops at operating_expenses
C5_Witness ==
    /\ page = "financial" /\ Uploaded
    /\ len(Up) > 0
    /\ FinRequired \ Up.columns = {"rent"}
    /\ \A i \in 1..len(Up) : Parseable(Up.rows[i]["date"])
    /\ status = "error" /\ exc = "KeyError"
    /\ "gross_profit" \in df[1].columns

\* the date columns a page's loader parses
Recognised ==
    IF page = "financial" THEN {"date"}
    ELSE IF page = "construction" THEN {"start_date", "end_date", "actual_end_date"}
    ELSE {}

\* the cell of the loaded table for cell `c` of the file
LoadedCell(col, c) ==
    IF col \in Recognised
    THEN (IF isna(c) \/ c[1] \notin DateTexts THEN Missing ELSE Num(DayOf(c[1])))
    ELSE c

\* the run ended in read_csv or in to_datetime, before the table was ready
LoadFailed ==
    /\ status = "error"
    /\ exc \in {"ParserError", "ValueError"}
    /\ SuccessNotices = {}

\* C6: in every recognised date column a cell that is no date becomes a
\* missing date and the load succeeds: the table has all its rows, every
\* other cell as uploaded.
C6_UnparseableDateBecomesMissing ==
    (/\ page \in {"financial", "construction"} /\ Uploaded
     /\ \E col \in Recognised \cap Up.columns :
            \E i \in 1..len(Up) : ~Parseable(Up.rows[i][col]))
        => /\ ~LoadFailed
           /\ df # None
           /\ len(df[1]) = len(Up)
           /\ \A i \in 1..len(Up) : \A col \in Up.columns :
                  df[1].rows[i][col] = LoadedCell(col, Up.rows[i][col])

\* C6 on the construction page alone
ConUnparseableDateBecomesMissing ==
    page = "construction" => C6_UnparseableDateBecomesMissing

\* numerator / divisor * 100 with a divisor of 0 taken as 1
WithDivisor(num, div) ==
    IF isna(num) \/ isna(div) THEN Missing
    ELSE <<num[1] * 100, IF div[1] = 0 THEN 1 ELSE div[1]>>

\* C7: every Completed row has schedule_variance, labor_productivity and
\* budget_variance computed with the divisor 1 when planned_duration,
\* labor_hours_actual, planned_budget is 0 and with the divisor itself
\* otherwise; no value results from a division by zero.
C7_ZeroDivisorReplacedByOne ==
    (page = "construction" /\ completed_projects # None)
        => \A i \in 1..len(completed_projects[1]) :
              LET r == completed_projects[1].rows[i]
              IN  /\ r["schedule_variance"] =
                         WithDivisor(Sub(r["planned_duration"], r["actual_duration"]),
                                     r["planned_duration"])
                  /\ r["labor_productivity"] =
                         WithDivisor(r["labor_hours_planned"], r["labor_hours_actual"])
                  /\ r["budget_variance"] =
                         WithDivisor(Sub(r["actual_budget"], r["planned_budget"]),
                                     r["planned_budget"])
                  /\ \A c \in {"schedule_variance", "labor_productivity",
                               "budget_variance"} :
                         notna(r[c]) => r[c][2] # 0

\* a Completed row whose three divisors are all 0
C7_Witness ==
    /\ page = "construction" /\ completed_projects # None
    /\ \E i \in 1..len(completed_projects[1]) :
           LET r == completed_projects[1].rows[i]
           IN  /\ r["planned_duration"] = Num(0)
               /\ r["labor_hours_actual"] = Num(0)
               /\ r["planned_budget"] = Num(0)
               /\ r["schedule_variance"] = <<-100, 1>>
               /\ r["labor_productivity"] = <<1000, 1>>
               /\ r["budget_variance"] = <<5000, 1>>

FinDerivedColumns == Range(FinDerived)

\* C8: deriving the financial profile again from its own result gives the
\* same seven derived columns and the same aggregate scalars.
C8_RederivingIsIdempotent ==
    (page = "financial" /\ df # None /\ FinDerivedColumns \subseteq df[1].columns)
        => LET again == calculate_financial_metrics(df[1])
           IN  /\ ~again.raised
               /\ again.df.columns = df[1].columns
               /\ \A c \in FinDerivedColumns :
                      Column(again.df, c) = Column(df[1], c)
               /\ status = "ok"
                    => \A n \in DOMAIN FinKeyMetrics(again.df) :
                           FinKeyMetrics(again.df)[n] = metrics[n]

\* a derived table of MaxRows rows with a missing cell in a derived column
C8_Witness ==
    /\ page = "financial" /\ Uploaded /\ status = "ok"
    /\ len(df[1]) >= 2
    /\ \E i \in 1..len(df[1]) : isna(df[1].rows[i]["net_profit"])
    /\ \E i \in 1..len(df[1]) : notna(df[1].rows[i]["net_profit_margin"])

\* C9: with an Exit Date column and at least one row, turnover_rate is
\* 100 * exits / rows to one decimal and lies in [0, 100].
C9_TurnoverRateInRange ==
    (page = "hr" /\ Uploaded /\ "Exit Date" \in Up.columns /\ len(Up) >= 1)
        => LET rate == metrics["Turnover Rate"]
               exits == Cardinality({i \in 1..len(Up) : notna(Up.rows[i]["Exit Date"])})
           IN  /\ Len(rate) = 2
               /\ rate[2] = 10
               /\ rate[1] >= 0
               /\ rate[1] <= 100 * 10
               \* rate is exits / rows * 100 to the nearest tenth
               /\ 2 * (rate[1] * len(Up) - 1000 * exits) <= len(Up)
               /\ 2 * (1000 * exits - rate[1] * len(Up)) <= len(Up)

\* every employee of a table has left: the rate is 100.0
C9_Witness ==
    /\ page = "hr" /\ Uploaded /\ "Exit Date" \in Up.columns
    /\ len(Up) >= 2
    /\ \A i \in 1..len(Up) : notna(Up.rows[i]["Exit Date"])
    /\ metrics["Turnover Rate"] = <<1000, 10>>

RowsWithStatus(t, v) ==
    {i \in 1..len(t) : t.rows[i]["project_status"] = Txt(v)}
OtherStatus(t) ==
    {i \in 1..len(t) :
        t.rows[i]["project_status"] \notin
            {Txt("Completed"), Txt("In Progress"), Txt("Confirmed")}}

\* the rows of subset `sub`, without the columns the derivation added, are
\* the rows of t with status v, in their order
IsStatusSubset(sub, t, v) ==
    /\ len(sub) = Cardinality(RowsWithStatus(t, v))
    /\ \A k \in 1..len(sub) : sub.rows[k]["project_status"] = Txt(v)
    /\ \A k \in 1..len(sub) :
           \E i \in RowsWithStatus(t, v) :
               /\ Cardinality({j \in RowsWithStatus(t, v) : j <= i}) = k
               /\ \A c \in t.columns : sub.rows[k][c] = t.rows[i][c]

\* C10: the Completed, In Progress and Confirmed subsets hold exactly the
\* rows with that status, so they are pairwise disjoint; rows with another
\* or a missing status are in none and stay in the table; the three counts
\* add up to the row count less the rows of other status.
C10_StatusSubsetsPartition ==
    (page = "construction" /\ completed_projects # None)
        => /\ IsStatusSubset(completed_projects[1], df[1], "Completed")
           /\ IsStatusSubset(in_progress_projects[1], df[1], "In Progress")
           /\ IsStatusSubset(confirmed_projects[1], df[1], "Confirmed")
           /\ len(df[1]) = len(Up)
           /\ len(completed_projects[1]) + len(in_progress_projects[1])
              + len(confirmed_projects[1])
                  = len(df[1]) - Cardinality(OtherStatus(df[1]))
           /\ "Confirmed Projects" \in DOMAIN metrics
                => /\ metrics["Completed Projects"] =
                          Num(Cardinality(RowsWithStatus(Up, "Completed")))
                   /\ metrics["In Progress Projects"] =
                          Num(Cardinality(RowsWithStatus(Up, "In Progress")))
                   /\ metrics["Confirmed Projects"] =
                          Num(Cardinality(RowsWithStatus(Up, "Confirmed")))

\* a table with a Completed row and a row of another status
C10_Witness ==
    /\ page = "construction" /\ completed_projects # None
    /\ len(df[1]) = 2
    /\ len(completed_projects[1]) = 1
    /\ Cardinality(OtherStatus(df[1])) = 1
    /\ status = "ok"
    /\ metrics["Completed Projects"] = Num(1)
    /\ metrics["In Progress Projects"] = Num(0)
    /\ metrics["Confirmed Projects"] = Num(0)

\* ---------------------------------------------------------------- C11
Ranked == page = "hr ranking" /\ "Top 5 by Hours Worked" \in DOMAIN metrics
Top5 == metrics["Top 5 by Hours Worked"]
Bottom5 == metrics["Bottom 5 by Hours Worked"]
Hours(r) == r["Hours Worked"]
Nr(r) == r["EmployeeNr"][1]
RowSet(rows) == {rows[i] : i \in 1..Len(rows)}

\* the rows are in descending order of hours, missing hours last, and rows
\* with equal hours in their original row order
SortedDescStable(rows) ==
    \A i, j \in 1..Len(rows) :
        i < j =>
            IF isna(Hours(rows[i])) THEN isna(Hours(rows[j])) /\ Nr(rows[i]) < Nr(rows[j])
            ELSE \/ isna(Hours(rows[j]))
                 \/ Less(Hours(rows[j]), Hours(rows[i]))
                 \/ Hours(rows[j]) = Hours(rows[i]) /\ Nr(rows[i]) < Nr(rows[j])

\* no row left out of the five has more hours than a row among them
TakesLargest(rows) ==
    \A r \in RowSet(Up.rows) \ RowSet(rows) :
        \A k \in RowSet(rows) :
            \/ isna(Hours(r))
            \/ notna(Hours(k)) /\ ~Less(Hours(k), Hours(r))

TopShape ==
    /\ RowSet(Top5) \subseteq RowSet(Up.rows)
    /\ SortedDescStable(Top5)
    /\ TakesLargest(Top5)
    /\ Len(Top5) = (IF len(Up) < 5 THEN len(Up) ELSE 5)

NoMissingHours == \A i \in 1..len(Up) : notna(Hours(Up.rows[i]))
TwoDifferentHours ==
    \E i, j \in 1..len(Up) : Hours(Up.rows[i]) # Hours(Up.rows[j])

FrequencyOutputs ==
    IF page = "hr"
    THEN {<<"Employees by Department", "Department">>,
          <<"Employees by Role", "Position">>,
          <<"Gender Distribution", "Gender">>,
          <<"Voluntary vs Involuntary Turnover", "Turnover Type">>}
    ELSE IF page = "construction"
    THEN {<<"Project Status Distribution", "project_status">>}
    ELSE {}

RECURSIVE TotalCount(_, _)
TotalCount(fc, k) ==
    IF k > Len(fc) THEN 0 ELSE fc[k].count + TotalCount(fc, k + 1)

\* fc holds each distinct non-missing value of s once, with the number of
\* cells of s that hold it, and nothing else
IsFrequencyTable(fc, s) ==
    /\ \A k \in 1..Len(fc) :
          /\ notna(fc[k].value)
          /\ fc[k].count >= 1
          /\ fc[k].count = Cardinality({i \in 1..Len(s) : s[i] = fc[k].value})
    /\ \A k, l \in 1..Len(fc) : fc[k].value = fc[l].value => k = l
    /\ \A i \in 1..Len(s) : notna(s[i]) => \E k \in 1..Len(fc) : fc[k].value = s[i]
    /\ TotalCount(fc, 1) = Cardinality({i \in 1..Len(s) : notna(s[i])})

\* C12: every frequency table a page shows holds each distinct non-missing
\* value of its column exactly once with its number of occurrences, counts no
\* missing value, and its counts add up to the number of non-missing cells.
C12_FrequencyTableCountsNonMissing ==
    Uploaded =>
        \A o \in FrequencyOutputs :
            o[1] \in DOMAIN metrics =>
                IsFrequencyTable(metrics[o[1]], Column(Up, o[2]))

\* Department values Eng, Eng, Ops give Eng: 2, Ops: 1
C12_Witness ==
    /\ Uploaded
    /\ page = "hr"
    /\ status = "ok"
    /\ len(Up) = 3
    /\ "Department" \in Up.columns
    /\ Column(Up, "Department") = <<Txt("Eng"), Txt("Eng"), Txt("Ops")>>
    /\ metrics["Employees by Department"]
          = <<[value |-> Txt("Eng"), count |-> 2],
              [value |-> Txt("Ops"), count |-> 1]>>

\* ---------------------------------------------------------------- C13
\* the dates of a chart's traces never go back from one point to the next
DateAscending(series) ==
    \A i, j \in 1..Len(series) :
        i < j /\ notna(series[i]["date"]) /\ notna(series[j]["date"])
            => ~Less(series[j]["date"], series[i]["date"])

\* C13: the series the financial charts plot against date (revenue,
\* gross_profit and net_profit; the two margins) are in ascending order of
\* date, whatever the order of the rows in the uploaded file.
C13_ChartSeriesOrderedByDate ==
    page = "financial" /\ "Profit Trends" \in DOMAIN metrics
        => /\ DateAscending(metrics["Profit Trends"])
           /\ DateAscending(metrics["Profit Margins"])

\* ---------------------------------------------------------------- C14
\* the page's derivation ran on the table of the last upload
DerivationRan ==
    /\ Uploaded
    /\ page \in {"hr", "financial", "construction"}
    /\ df # None
    /\ ~LoadFailed
    /\ (page = "financial" => "date" \in Up.columns)

\* the columns the page's derivation assigns
DerivedNames ==
    IF page = "hr" THEN {"Output Proxy"}
    ELSE IF page = "financial" THEN Range(FinDerived)
    ELSE Range(ConDerived)

\* the cell holds what it held: a date column's text and the date it is
\* parsed to count as the same value
SameValue(col, before, after) ==
    IF col \in Recognised
    THEN (IF isna(before) THEN isna(after)
          ELSE notna(after) /\ before[1] \in DateTexts
                  /\ after = Num(DayOf(before[1])))
    ELSE after = before

\* C14 as stated: after the derivation of any of the three profiles every
\* column of the loaded table has the values it had, row by row, and the
\* table has as many rows as before.
C14_DerivationOnlyAppendsColumns ==
    DerivationRan =>
        /\ len(df[1]) = len(Up)
        /\ Up.columns \subseteq df[1].columns
        /\ \A i \in 1..len(Up) : \A col \in Up.columns :
               SameValue(col, Up.rows[i][col], df[1].rows[i][col])

\* C14, amended: after the derivation the table has as many rows as before
\* and every loaded column that does not bear the name of a derived column
\* is as it was, but for the construction derivation's own parsing of
\* start_date, end_date and actual_end_date, which turns a cell that is no
\* date into a missing one.
C14_DerivationKeepsSourceColumnsButParsesDates ==
    DerivationRan =>
        /\ len(df[1]) = len(Up)
        /\ Up.columns \subseteq df[1].columns
        /\ \A i \in 1..len(Up) : \A col \in Up.columns \ DerivedNames :
               df[1].rows[i][col] = LoadedCell(col, Up.rows[i][col])

\* a construction table with a start_date that is no date: after the
\* derivation the cell is missing, the project's name and budget are as
\* uploaded
C14_Witness ==
    /\ DerivationRan
    /\ page = "construction"
    /\ status = "ok"
    /\ len(Up) >= 1
    /\ Up.rows[1]["start_date"] = Txt("not a date")
    /\ isna(df[1].rows[1]["start_date"])
    /\ df[1].rows[1]["project_name"] = Up.rows[1]["project_name"]
    /\ df[1].rows[1]["planned_budget"] = Up.rows[1]["planned_budget"]

\* ---------------------------------------------------------------- C15
\* a financial table with every column and no missing cell went through the
\* page
FinComplete ==
    /\ Uploaded
    /\ page = "financial"
    /\ status = "ok"
    /\ FinRequired \subseteq Up.columns
    /\ \A i \in 1..len(Up) : \A c \in FinRequired : notna(Up.rows[i][c])

\* the number in column c of the i-th uploaded row
Cell(i, c) == Up.rows[i][c][1]

RowGrossProfit(i) == Cell(i, "revenue") - Cell(i, "cogs")
RowNetProfit(i) ==
    Cell(i, "revenue") - Cell(i, "cogs") - Cell(i, "salaries") - Cell(i, "rent")
        - Cell(i, "marketing") - Cell(i, "utilities") - Cell(i, "interest_paid")
        - Cell(i, "investment_losses") - Cell(i, "legal_settlements")

RECURSIVE TotalRevenue(_)
TotalRevenue(i) ==
    IF i > len(Up) THEN 0 ELSE Cell(i, "revenue") + TotalRevenue(i + 1)

RECURSIVE TotalGrossProfit(_)
TotalGrossProfit(i) ==
    IF i > len(Up) THEN 0 ELSE RowGrossProfit(i) + TotalGrossProfit(i + 1)

\* m is the tenth nearest to 100 * g / r
NearestTenthOfPercent(m, g, r) ==
    /\ Len(m) = 2
    /\ m[2] = 10
    /\ 2 * Abs(1000 * g - m[1] * r) <= Abs(r)

\* C15: in a financial table with no missing cell every row has
\* gross_profit = revenue - cogs and net_profit = revenue less cogs and the
\* seven expense categories, and the gross margin shown is the total gross
\* profit over the total revenue, times 100, to one decimal.
C15_GrossMarginIsRatioOfTotals ==
    FinComplete =>
        /\ \A i \in 1..len(Up) :
               /\ df[1].rows[i]["gross_profit"] = Num(RowGrossProfit(i))
               /\ df[1].rows[i]["net_profit"] = Num(RowNetProfit(i))
        /\ metrics["Gross Profit"] = Num(TotalGrossProfit(1))
        /\ IF TotalRevenue(1) = 0
           THEN isna(metrics["Gross Margin"]) \/ metrics["Gross Margin"][2] = 0
           ELSE NearestTenthOfPercent(metrics["Gross Margin"],
                                      TotalGrossProfit(1), TotalRevenue(1))

\* revenue 100, 200 and cogs 60, 80: gross_profit 40, 120, total 160,
\* margin 53.3
C15_Witness ==
    /\ FinComplete
    /\ len(Up) = 2
    /\ Column(Up, "revenue") = <<Num(100), Num(200)>>
    /\ Column(Up, "cogs") = <<Num(60), Num(80)>>
    /\ Column(df[1], "gross_profit") = <<Num(40), Num(120)>>
    /\ metrics["Gross Profit"] = Num(160)
    /\ metrics["Gross Margin"] = <<533, 10>>

\* ---------------------------------------------------------------- C16
\* C16: a run of the HR page with no file uploaded reads the table only
\* after it was assigned: the run ends without a fault and computes no
\* metric.
C16_NoUploadRunEndsWithoutFault ==
    page = "hr" /\ uploaded_file = None
        => /\ status # "fault"
           /\ exc = "none"
           /\ metrics = EmptyFn

====
